---- MODULE Spec2Model ----
(***************************************************************************)
(* A model of Collection (src/src/collection.cpp): document ingestion,     *)
(* lookup, removal and the request validation / pagination of search,      *)
(* over a key-value Store and four Index shards.                           *)
(*                                                                         *)
(* Strings are sequences of one-character strings ("a", "9", "_"), except  *)
(* that the fixed prefixes ("$DI", "$SI", "$CN") are one atom each and     *)
(* that the value of a string field is its sequence of whitespace          *)
(* separated tokens.  The four bytes of a seq_id key are written as eight  *)
(* hexadecimal digits, which keeps the byte order.                         *)
(***************************************************************************)
EXTENDS Integers, Sequences, FiniteSets, TLC

\* ------------------------------------------------------------------ bounds
\* Number of sequence ids a behaviour may draw (caps next_seq_id).
MaxAdds == 2
\* How far below zero num_documents may be driven (caps the removes of a
\* document that remove(id, false) left in the Store).
MaxUnderflow == 1

\* ------------------------------------------------- construction parameters
collection_name == <<"c">>
collection_id == 0
token_ranking_field == "points"
num_indices == 4
MAX_RESULTS == 500
SNIPPET_STR_ABOVE_LEN == 30

\* Values the constructor's next_seq_id parameter is drawn from.
InitSeqIds == {9}

\* Schema field types (field_types::).
field_types_STRING == "STRING"
field_types_INT32 == "INT32"
field_types_INT64 == "INT64"
field_types_FLOAT == "FLOAT"
field_types_STRING_ARRAY == "STRING_ARRAY"
field_types_INT32_ARRAY == "INT32_ARRAY"
field_types_INT64_ARRAY == "INT64_ARRAY"
field_types_FLOAT_ARRAY == "FLOAT_ARRAY"

\* The field list handed to the constructor.
fields == << [name |-> "title",  type |-> field_types_STRING,       facet |-> FALSE],
             [name |-> "points", type |-> field_types_INT32,        facet |-> FALSE],
             [name |-> "tags",   type |-> field_types_STRING_ARRAY, facet |-> TRUE] >>

FieldNamed(n) == CHOOSE f \in {fields[i] : i \in DOMAIN fields} : f.name = n

is_single_integer(f) == f.type \in {field_types_INT32, field_types_INT64}
is_single_float(f) == f.type = field_types_FLOAT

search_schema == {fields[i].name : i \in DOMAIN fields}
facet_schema == {fields[i].name : i \in {j \in DOMAIN fields : fields[j].facet}}
sort_schema == {fields[i].name : i \in {j \in DOMAIN fields :
                    is_single_integer(fields[j]) \/ is_single_float(fields[j])}}

\* ------------------------------------------------------------ number codecs
Digits == <<"0", "1", "2", "3", "4", "5", "6", "7", "8", "9">>
HexDigits == <<"0", "1", "2", "3", "4", "5", "6", "7", "8", "9",
               "a", "b", "c", "d", "e", "f">>

RECURSIVE to_string(_)
\* std::to_string of an unsigned value: its decimal digits.
to_string(n) == IF n < 10 THEN <<Digits[n + 1]>>
                ELSE to_string(n \div 10) \o <<Digits[(n % 10) + 1]>>

IsDigit(c) == \E d \in 1..10 : Digits[d] = c
DigitValue(c) == (CHOOSE d \in 1..10 : Digits[d] = c) - 1

RECURSIVE stol_acc(_, _, _)
stol_acc(s, i, acc) == IF i > Len(s) \/ ~IsDigit(s[i]) THEN acc
                       ELSE stol_acc(s, i + 1, acc * 10 + DigitValue(s[i]))
\* std::stol on a text that starts with a digit: the value of its leading
\* digits.
stol(s) == stol_acc(s, 1, 0)

\* One byte as two hexadecimal digits.
ByteText(b) == <<HexDigits[(b \div 16) + 1], HexDigits[(b % 16) + 1]>>

\* --------------------------------------------------------------- key layout
get_next_seq_id_key(cname) == <<"$CN", "_">> \o cname

get_seq_id_collection_prefix == to_string(collection_id) \o <<"_", "$SI">>

\* get_seq_id_key that keeps the three high bytes only.
get_seq_id_key_high_bytes(seq_id) ==
    get_seq_id_collection_prefix \o <<"_">>
        \o ByteText((seq_id \div 16777216) % 256)
        \o ByteText((seq_id \div 65536) % 256)
        \o ByteText((seq_id \div 256) % 256)

get_seq_id_key(seq_id) ==
    get_seq_id_collection_prefix \o <<"_">>
        \o ByteText((seq_id \div 16777216) % 256)
        \o ByteText((seq_id \div 65536) % 256)
        \o ByteText((seq_id \div 256) % 256)
        \o ByteText(seq_id % 256)

get_doc_id_key(doc_id) == to_string(collection_id) \o <<"_", "$DI", "_">> \o doc_id

IsDocIdKey(k) == Len(k) >= 4 /\ SubSeq(k, 1, 4) = to_string(collection_id) \o <<"_", "$DI", "_">>

\* -------------------------------------------------------------------- Store
\* The Store is a finite map from keys to values.
StoreHas(st, k) == k \in DOMAIN st
\* get: the value, or the untouched (empty) output string when NOT_FOUND.
StoreGet(st, k) == IF k \in DOMAIN st THEN st[k] ELSE <<>>
StoreInsert(st, k, v) == [x \in DOMAIN st \cup {k} |-> IF x = k THEN v ELSE st[x]]
StoreRemove(st, k) == [x \in DOMAIN st \ {k} |-> st[x]]
\* increment: a decimal counter, created when absent.
StoreIncrement(st, k, delta) ==
    StoreInsert(st, k, to_string((IF k \in DOMAIN st THEN stol(st[k]) ELSE 0) + delta))

\* --------------------------------------------------------------------- JSON
\* A JSON value is [k |-> kind, v |-> payload], kind one of "str", "int",
\* "float", "arr".  A document is a function from member names to values.
\* The text of an object is <<"{", members>>, members a sequence of
\* <<name, value>> in the order they are written; any other text does not
\* parse.
\* An integer payload [hi, lo] is the number hi * 2^31 + lo, 0 <= lo < 2^31;
\* a float payload [m, e] is the number m * 10^e, m a single digit.
JStr(s) == [k |-> "str", v |-> s]
JInt(h, l) == [k |-> "int", v |-> [hi |-> h, lo |-> l]]
JFlt(mm, ee) == [k |-> "float", v |-> [m |-> mm, e |-> ee]]
JArr(a) == [k |-> "arr", v |-> a]

is_string(j) == j.k = "str"
is_number_integer(j) == j.k = "int"
is_number_float(j) == j.k = "float"
is_number(j) == j.k \in {"int", "float"}
is_array(j) == j.k = "arr"

ObjText(members) == <<"{", members>>
BadText == <<"{">>
IsObjText(t) == Len(t) = 2 /\ t[1] = "{"

count(document, name) == IF name \in DOMAIN document THEN 1 ELSE 0

\* nlohmann::json::parse: the object of the text, a later duplicate member
\* replacing an earlier one.
json_parse(t) ==
    LET m == t[2]
        last_of(n) == CHOOSE i \in DOMAIN m :
                          m[i][1] = n /\ \A j \in DOMAIN m : m[j][1] = n => j <= i
    IN [n \in {m[i][1] : i \in DOMAIN m} |-> m[last_of(n)][2]]

\* Member names in the order an object is dumped (std::map order).
KeyOrder == <<"_highlight", "id", "points", "tags", "title">>

RECURSIVE dump_members(_, _)
dump_members(document, i) ==
    IF i > Len(KeyOrder) THEN <<>>
    ELSE (IF KeyOrder[i] \in DOMAIN document
             THEN << <<KeyOrder[i], document[KeyOrder[i]]>> >> ELSE <<>>)
         \o dump_members(document, i + 1)

\* nlohmann::json::dump.
json_dump(document) == ObjText(dump_members(document, 1))

SetMember(document, n, val) ==
    [x \in DOMAIN document \cup {n} |-> IF x = n THEN val ELSE document[x]]

\* get<int64_t>() > INT32_MAX, INT32_MAX = 2^31 - 1.
exceeds_int32_max(j) == j.v.hi >= 1
\* get<float>() > FLT_MAX (3.4028235e38): the conversion gave infinity.
exceeds_float_max(j) == j.v.e > 38 \/ (j.v.e = 38 /\ j.v.m > 3)

\* ---------------------------------------------------------------- validation
\* The token ranking field checks of validate_index_in_memory.
token_ranking_error(document) ==
    /\ token_ranking_field # ""
    /\ \/ count(document, token_ranking_field) = 0
       \/ /\ ~is_number_integer(document[token_ranking_field])
          /\ ~is_number_float(document[token_ranking_field])
       \/ /\ is_number_integer(document[token_ranking_field])
          /\ exceeds_int32_max(document[token_ranking_field])
       \/ /\ is_number_float(document[token_ranking_field])
          /\ exceeds_float_max(document[token_ranking_field])

\* The check of one search_schema field; only element 0 of an array is
\* looked at.
search_field_error(document, f) ==
    \/ count(document, f.name) = 0
    \/ LET j == document[f.name] IN
         CASE f.type = field_types_STRING -> ~is_string(j)
           [] f.type = field_types_INT32 -> ~is_number_integer(j) \/ exceeds_int32_max(j)
           [] f.type = field_types_INT64 -> ~is_number_integer(j)
           [] f.type = field_types_FLOAT -> ~is_number(j)
           [] f.type = field_types_STRING_ARRAY ->
                 ~is_array(j) \/ (Len(j.v) > 0 /\ ~is_string(j.v[1]))
           [] f.type = field_types_INT32_ARRAY ->
                 ~is_array(j) \/ (Len(j.v) > 0 /\ ~is_number_integer(j.v[1]))
           [] f.type = field_types_INT64_ARRAY ->
                 ~is_array(j) \/ (Len(j.v) > 0 /\ ~is_number_integer(j.v[1]))
           [] f.type = field_types_FLOAT_ARRAY ->
                 ~is_array(j) \/ (Len(j.v) > 0 /\ ~is_number_float(j.v[1]))

\* The check of one facet_schema field.
facet_field_error(document, f) ==
    \/ count(document, f.name) = 0
    \/ LET j == document[f.name] IN
         CASE f.type = field_types_STRING -> ~is_string(j)
           [] f.type = field_types_STRING_ARRAY ->
                 ~is_array(j) \/ (Len(j.v) > 0 /\ ~is_string(j.v[1]))
           [] OTHER -> TRUE

\* validate_index_in_memory: 200, or 400 at the first failing check (every
\* failing check returns 400, so the order of the checks does not show).
validate_index_in_memory(document, seq_id) ==
    IF \/ token_ranking_error(document)
       \/ \E n \in search_schema : search_field_error(document, FieldNamed(n))
       \/ \E n \in facet_schema : facet_field_error(document, FieldNamed(n))
    THEN 400 ELSE 200

\* ------------------------------------------------------------- Index shards
\* A shard is the map from the seq_ids it has indexed to their document and
\* points.  indices[i + 1] is shard i.
EmptyIndex == [x \in {} |-> 0]

Index_index_in_memory(shard, document, seq_id, points) ==
    [x \in DOMAIN shard \cup {seq_id} |->
        IF x = seq_id THEN [document |-> document, points |-> points] ELSE shard[x]]

\* Dropping a seq_id the shard does not hold changes nothing.
Index_remove(shard, seq_id, document) ==
    [x \in DOMAIN shard \ {seq_id} |-> shard[x]]

\* index_in_memory that always hands the document to shard 0.
index_in_memory_first_shard(idx, ndocs, document, seq_id) ==
    IF validate_index_in_memory(document, seq_id) # 200
    THEN [code |-> 400, indices |-> idx, num_documents |-> ndocs]
    ELSE LET points == IF token_ranking_field # ""
                       THEN document[token_ranking_field].v.lo ELSE 0
         IN [code |-> 200,
             indices |-> [idx EXCEPT ![1] =
                            Index_index_in_memory(idx[1], document, seq_id, points)],
             num_documents |-> ndocs + 1]

\* index_in_memory.  The schema declares the ranking field field_types_INT32, so a
\* document that passed validation carries an integer there and the float
\* re-encoding of lines 207-212 is never taken.
index_in_memory(idx, ndocs, document, seq_id) ==
    IF validate_index_in_memory(document, seq_id) # 200
    THEN [code |-> 400, indices |-> idx, num_documents |-> ndocs]
    ELSE LET points == IF token_ranking_field # ""
                       THEN document[token_ranking_field].v.lo ELSE 0
             i == (seq_id % num_indices) + 1
         IN [code |-> 200,
             indices |-> [idx EXCEPT ![i] =
                            Index_index_in_memory(idx[i], document, seq_id, points)],
             num_documents |-> ndocs + 1]

\* -------------------------------------------------------------------- state
VARIABLES
    next_seq_id,    \* Collection::next_seq_id
    store,          \* the contents of the Store
    indices,        \* Collection::indices, the four shards
    num_documents,  \* Collection::num_documents; a size_t, kept as the
                    \* representative of its value mod 2^64 nearest to 0
    last,           \* the call that was made last, with its result
    assigned,       \* history: the seq_ids handed out, in order
    expected,       \* history: id -> text and seq_id of the last successful
                    \* add that returned the id, while no remove of the id
                    \* succeeded since
    removed         \* history: id -> remove_from_store of the last
                    \* successful remove of that id, while no add stored
                    \* a document under the id since

vars == <<next_seq_id, store, indices, num_documents, last, assigned, expected, removed>>

EmptyMap == [x \in {} |-> 0]
MapSet(f, x, v) == [y \in DOMAIN f \cup {x} |-> IF y = x THEN v ELSE f[y]]
MapDrop(f, x) == [y \in DOMAIN f \ {x} |-> f[y]]

\* ------------------------------------------------------------------- inputs
TitleA == JStr(<<"hunger", "games">>)
TitleB == JStr(<<"hunger">>)
Tags1 == JArr(<<JStr(<<"x">>)>>)
Tags2 == JArr(<<JStr(<<"x">>), JStr(<<"y">>)>>)

\* The texts handed to add.
JsonInputs == <<
    ObjText(<< <<"id", JStr(<<"a">>)>>, <<"title", TitleA>>,
               <<"points", JInt(0, 100)>>, <<"tags", Tags1>> >>),
    ObjText(<< <<"title", TitleB>>, <<"tags", Tags2>>,
               <<"points", JInt(0, 50)>>, <<"id", JStr(<<"a">>)>> >>),
    ObjText(<< <<"title", TitleB>>, <<"points", JInt(0, 50)>>, <<"tags", Tags2>> >>),
    ObjText(<< <<"id", JStr(<<"1", "0">>)>>, <<"title", TitleA>>,
               <<"points", JInt(0, 7)>>, <<"tags", Tags1>> >>),
    ObjText(<< <<"id", JInt(0, 1)>>, <<"title", TitleA>>,
               <<"points", JInt(0, 100)>>, <<"tags", Tags1>> >>),
    ObjText(<< <<"id", JStr(<<"b">>)>>, <<"points", JInt(0, 100)>>, <<"tags", Tags1>> >>),
    BadText >>

Req(q, sf, ff, so, pp, pg) ==
    [query |-> q, search_fields |-> sf, facet_fields |-> ff, sort_fields |-> so,
     per_page |-> pp, page |-> pg]

PointsDesc == <<[name |-> "points", order |-> <<"d", "e", "s", "c">>]>>

\* The requests handed to search (filter empty, num_typos 0, no prefix).
SearchInputs == <<
    Req(<<"hunger">>, <<"title">>, <<>>, <<>>, 10, 1),
    Req(<<"hunger">>, <<"title">>, <<"tags">>, PointsDesc, 1, 1),
    Req(<<"hunger">>, <<"title">>, <<"tags">>, <<>>, 1, 2),
    Req(<<"games">>, <<"title">>, <<>>, <<>>, 10, 3),
    Req(<<"hunger">>, <<"title">>, <<>>, <<>>, 0, 1),
    Req(<<"hunger">>, <<"title">>, <<>>, <<>>, 10, 0),
    Req(<<"hunger">>, <<"title">>, <<"tags">>, <<>>, 10, 51),
    Req(<<"hunger">>, <<"nope">>, <<>>, <<>>, 10, 0),
    Req(<<"hunger">>, <<"points">>, <<>>, <<>>, 10, 1),
    Req(<<"hunger">>, <<"title">>, <<"nope">>, <<>>, 251, 2),
    Req(<<"hunger">>, <<"title">>, <<>>, <<[name |-> "title", order |-> <<"a", "s", "c">>]>>, 10, 1),
    Req(<<"hunger">>, <<"title">>, <<>>, <<[name |-> "points", order |-> <<"u", "p">>]>>, 10, 0),
    Req(<<"hunger">>, <<>>, <<>>, <<>>, 10, 1),
    Req(<<"hunger">>, <<>>, <<"tags">>, PointsDesc, 10, 0),
    Req(<<"hunger">>, <<>>, <<"nope">>, <<>>, 10, 1) >>

\* The ids handed to get and remove.
IdInputs == {<<"a">>, <<"1", "0">>}

\* ------------------------------------------------------------------- search
\* StringUtils::toupper, on the letters that occur.
LowerLetters == <<"a", "c", "d", "e", "p", "s", "u">>
UpperLetters == <<"A", "C", "D", "E", "P", "S", "U">>
toupper_char(c) == IF \E i \in DOMAIN LowerLetters : LowerLetters[i] = c
                   THEN UpperLetters[CHOOSE i \in DOMAIN LowerLetters : LowerLetters[i] = c]
                   ELSE c
toupper(str) == [i \in DOMAIN str |-> toupper_char(str[i])]

sort_field_const_asc == <<"A", "S", "C">>
sort_field_const_desc == <<"D", "E", "S", "C">>

\* "validate search fields": TRUE when the loop returns 400.
search_fields_error(search_fields) ==
    \E i \in DOMAIN search_fields :
        \/ search_fields[i] \notin search_schema
        \/ /\ search_fields[i] \in search_schema
           /\ LET search_field == FieldNamed(search_fields[i]) IN
                \/ /\ search_field.type # field_types_STRING
                   /\ search_field.type # field_types_STRING_ARRAY
                \/ search_field.facet

\* "validate facet fields".
facet_fields_error(facet_fields) ==
    \E i \in DOMAIN facet_fields : facet_fields[i] \notin facet_schema

\* "validate sort fields and standardize".
sort_fields_error(sort_fields) ==
    \E i \in DOMAIN sort_fields :
        \/ sort_fields[i].name \notin sort_schema
        \/ /\ toupper(sort_fields[i].order) # sort_field_const_asc
           /\ toupper(sort_fields[i].order) # sort_field_const_desc

sort_fields_std_of(sort_fields) ==
    [i \in DOMAIN sort_fields |->
        [name |-> sort_fields[i].name, order |-> toupper(sort_fields[i].order)]]

\* The pagination check without its MAX_RESULTS half.
pagination_error_page_only(page, per_page) ==
    IF page < 1 THEN 422 ELSE 0

\* "check for valid pagination": 422, or 0 when the request passes.  page and
\* per_page are size_t; the inputs keep the product far below 2^64.
pagination_error(page, per_page) ==
    IF page < 1 THEN 422
    ELSE IF (page * per_page) > MAX_RESULTS THEN 422
    ELSE 0

\* -- Index::search: what a shard contributes to a request ------------------
\* Positions (from 0) of token t in a token sequence.
PositionsOf(tokens, t) == {i - 1 : i \in {j \in DOMAIN tokens : tokens[j] = t}}

SetMin(S) == CHOOSE x \in S : \A y \in S : x <= y
SetMax(S) == CHOOSE x \in S : \A y \in S : x >= y

\* The query tokens a string field holds; "*" holds for every document.
FieldMatches(document, field_name, query) ==
    /\ field_name \in DOMAIN document
    /\ is_string(document[field_name])
    /\ \/ query = <<"*">>
       \/ \E i \in DOMAIN query : PositionsOf(document[field_name].v, query[i]) # {}

\* The first position of each query token the field holds.
TokenIndices(document, field_name, query) ==
    {SetMin(PositionsOf(document[field_name].v, query[i])) :
        i \in {j \in DOMAIN query : PositionsOf(document[field_name].v, query[j]) # {}}}

\* words_present * W - distance, W = 100.
MatchScoreOf(document, field_name, query) ==
    LET ti == TokenIndices(document, field_name, query) IN
    IF ti = {} THEN 0 ELSE Cardinality(ti) * 100 - (SetMax(ti) - SetMin(ti))

SortValue(document, sort_field) ==
    IF sort_field.order = sort_field_const_asc
    THEN 0 - document[sort_field.name].v.lo
    ELSE document[sort_field.name].v.lo

\* The Topster entry of one document for the search field at position p
\* (from 0) of search_fields.
EntryOf(shard, seq_id, req, sort_fields_std, p) ==
    LET document == shard[seq_id].document IN
    [first |-> Len(req.search_fields) - p,
     match_score |-> MatchScoreOf(document, req.search_fields[p + 1], req.query),
     primary_attr |-> IF Len(sort_fields_std) >= 1
                      THEN SortValue(document, sort_fields_std[1])
                      ELSE IF token_ranking_field # "" THEN shard[seq_id].points ELSE 0,
     secondary_attr |-> IF Len(sort_fields_std) >= 2
                        THEN SortValue(document, sort_fields_std[2]) ELSE 0,
     key |-> seq_id,
     query_index |-> 0]

\* The entries a shard pushes into field_order_kvs.
Index_search_kvs(shard, req, sort_fields_std) ==
    {EntryOf(shard, x[1], req, sort_fields_std, x[2] - 1) :
        x \in {y \in (DOMAIN shard) \X (DOMAIN req.search_fields) :
                 FieldMatches(shard[y[1]].document, req.search_fields[y[2]], req.query)}}

\* The seq_ids of a shard that a request matches (added to all_result_ids_len).
Index_search_ids(shard, req) ==
    {x \in DOMAIN shard : \E i \in DOMAIN req.search_fields :
        FieldMatches(shard[x].document, req.search_fields[i], req.query)}

\* The values of a facet field in a document.
FacetValues(document, field_name) ==
    IF is_array(document[field_name])
    THEN {document[field_name].v[i].v : i \in DOMAIN document[field_name].v}
    ELSE {document[field_name].v}

\* facet.result_map after all shards searched: value -> count.
FacetResultMap(idx, req, field_name) ==
    LET matched == UNION {{idx[i][x].document : x \in Index_search_ids(idx[i], req)} :
                            i \in 1..num_indices}
        hits(v) == Cardinality({<<i, x>> \in (1..num_indices) \X (UNION {DOMAIN idx[j] : j \in 1..num_indices}) :
                        /\ x \in Index_search_ids(idx[i], req)
                        /\ v \in FacetValues(idx[i][x].document, field_name)})
        values == UNION {UNION {FacetValues(idx[i][x].document, field_name) :
                                   x \in Index_search_ids(idx[i], req)} : i \in 1..num_indices}
    IN [v \in values |-> hits(v)]

\* -- Collection::search -----------------------------------------------------
\* The std::tie comparison of the sort: a ranks before b.
kv_greater(a, b) ==
    \/ a.match_score > b.match_score
    \/ /\ a.match_score = b.match_score
       /\ \/ a.primary_attr > b.primary_attr
          \/ /\ a.primary_attr = b.primary_attr
             /\ \/ a.secondary_attr > b.secondary_attr
                \/ /\ a.secondary_attr = b.secondary_attr
                   /\ \/ a.first > b.first
                      \/ /\ a.first = b.first
                         /\ a.key > b.key

RECURSIVE sort_kvs(_)
\* std::sort with kv_greater; no two entries compare equal, as no two share
\* both field and key.
sort_kvs(S) ==
    IF S = {} THEN <<>>
    ELSE LET top == CHOOSE a \in S : \A b \in S \ {a} : kv_greater(a, b)
         IN <<top>> \o sort_kvs(S \ {top})

Min2(a, b) == IF a <= b THEN a ELSE b
Max2(a, b) == IF a >= b THEN a ELSE b

\* The snippet of a string field: matched tokens wrapped in <mark>, and for a
\* long value only the tokens around the matches.
Snippet(tokens, token_indices) ==
    LET marked == [i \in DOMAIN tokens |->
                      IF (i - 1) \in token_indices
                      THEN "<mark>" \o tokens[i] \o "</mark>" ELSE tokens[i]]
        start_index == IF Len(tokens) <= SNIPPET_STR_ABOVE_LEN THEN 0
                       ELSE Max2(0, SetMin(token_indices) - 5)
        end_index == IF Len(tokens) <= SNIPPET_STR_ABOVE_LEN THEN Len(tokens)
                     ELSE Min2(Len(tokens), SetMax(token_indices) + 5)
    IN SubSeq(marked, start_index + 1, end_index)

\* One hit: the stored document with its _highlight.
HitOf(document, kv, req) ==
    LET field_name == req.search_fields[(Len(req.search_fields) - kv.first) + 1] IN
    IF FieldNamed(field_name).type = field_types_STRING
    THEN SetMember(document, "_highlight",
           [k |-> "obj",
            v |-> (field_name :> JStr(Snippet(document[field_name].v,
                                     TokenIndices(document, field_name, req.query))))])
    ELSE document

RECURSIVE collect_hits(_, _, _, _, _)
\* The loop over the page: [code, hits, reads], stopping with 500 at a stored
\* document that does not parse.
collect_hits(st, kvs, req, i, end_index) ==
    IF i > end_index THEN [code |-> 200, hits |-> <<>>, reads |-> 0]
    ELSE LET value == StoreGet(st, get_seq_id_key(kvs[i + 1].key)) IN
         IF ~IsObjText(value) THEN [code |-> 500, hits |-> <<>>, reads |-> 1]
         ELSE LET rest == collect_hits(st, kvs, req, i + 1, end_index) IN
              [code |-> rest.code,
               hits |-> <<HitOf(json_parse(value), kvs[i + 1], req)>> \o rest.hits,
               reads |-> rest.reads + 1]

\* The orders in which equal counts may leave the sort of a facet's values.
FacetOrders(result_map) ==
    {q \in [1..Cardinality(DOMAIN result_map) -> DOMAIN result_map] :
        /\ \A i, j \in DOMAIN q : i # j => q[i] # q[j]
        /\ \A i, j \in DOMAIN q : i < j => result_map[q[i]] >= result_map[q[j]]}

facet_result(field_name, result_map, order) ==
    [field_name |-> field_name,
     counts |-> [i \in 1..Min2(10, Len(order)) |->
                    [value |-> order[i], count |-> result_map[order[i]]]]]

\* Whether the page loop runs past the end of field_order_kvs: its bound
\* end_result_index is -1 and is compared as a size_t.
page_loop_overruns(req, kvsize) ==
    /\ ~(((req.page - 1) * req.per_page) > (kvsize - 1))
    /\ Min2(req.page * req.per_page, kvsize) - 1 < (req.page - 1) * req.per_page

\* search, as a function of the state.  facet_orders gives, per position of
\* facet_fields, the order its values leave the sort in; overrun is what
\* the build does when the page loop reads past the end of the vector
\* (0: the process dies, 500: the garbage entry names no stored document).
\* code 0 stands for a call that never returns.  Past the validations the
\* result also holds kvs, the sorted field_order_kvs, and kv_reads, the
\* first and last position (from 0) of kvs the page loop indexed (last
\* below first: none).
search(req, facet_orders, overrun) ==
    IF search_fields_error(req.search_fields)
    THEN [code |-> 400, shard_searches |-> 0, store_reads |-> 0]
    ELSE IF facet_fields_error(req.facet_fields)
    THEN [code |-> 400, shard_searches |-> 0, store_reads |-> 0]
    ELSE IF sort_fields_error(req.sort_fields)
    THEN [code |-> 400, shard_searches |-> 0, store_reads |-> 0]
    ELSE IF pagination_error(req.page, req.per_page) # 0
    THEN [code |-> pagination_error(req.page, req.per_page),
          shard_searches |-> 0, store_reads |-> 0]
    ELSE
    LET sort_fields_std == sort_fields_std_of(req.sort_fields)
        field_order_kvs == sort_kvs(UNION {Index_search_kvs(indices[i], req, sort_fields_std) :
                                             i \in 1..num_indices})
        all_result_ids_len == Cardinality(UNION {Index_search_ids(indices[i], req) :
                                                   i \in 1..num_indices})
        start_result_index == (req.page - 1) * req.per_page
        kvsize == Len(field_order_kvs)
        end_result_index == Min2(req.page * req.per_page, kvsize) - 1
    IN  IF start_result_index > (kvsize - 1)
        THEN [code |-> 200, shard_searches |-> num_indices, store_reads |-> 0,
              kvs |-> field_order_kvs, kv_reads |-> <<0, -1>>,
              body |-> [hits |-> <<>>, found |-> all_result_ids_len]]
        ELSE IF page_loop_overruns(req, kvsize)
        THEN [code |-> overrun, shard_searches |-> num_indices,
              store_reads |-> kvsize - start_result_index,
              kvs |-> field_order_kvs, kv_reads |-> <<start_result_index, kvsize>>]
        ELSE
        LET page_hits == collect_hits(store, field_order_kvs, req,
                                      start_result_index, end_result_index)
        IN  IF page_hits.code # 200
            THEN [code |-> 500, shard_searches |-> num_indices,
                  store_reads |-> page_hits.reads,
                  kvs |-> field_order_kvs,
                  kv_reads |-> <<start_result_index,
                                 start_result_index + page_hits.reads - 1>>]
            ELSE [code |-> 200, shard_searches |-> num_indices,
                  store_reads |-> page_hits.reads,
                  kvs |-> field_order_kvs,
                  kv_reads |-> <<start_result_index,
                                 start_result_index + page_hits.reads - 1>>,
                  body |-> [hits |-> page_hits.hits,
                            found |-> all_result_ids_len,
                            facet_counts |->
                               [i \in DOMAIN req.facet_fields |->
                                   facet_result(req.facet_fields[i],
                                       FacetResultMap(indices, req, req.facet_fields[i]),
                                       facet_orders[i])]]]

\* -------------------------------------------------------------- Collection
Init ==
    /\ next_seq_id \in InitSeqIds
    /\ store = (get_next_seq_id_key(collection_name) :> to_string(next_seq_id))
    /\ indices = [i \in 1..num_indices |-> EmptyIndex]
    /\ num_documents = 0
    /\ last = [op |-> "new"]
    /\ assigned = <<>>
    /\ expected = EmptyMap
    /\ removed = EmptyMap

\* get_next_seq_id without the post-increment of next_seq_id.
get_next_seq_id_no_increment(st, nsi, inc_ok) ==
    [store |-> IF inc_ok
               THEN StoreIncrement(st, get_next_seq_id_key(collection_name), 1)
               ELSE st,
     next_seq_id |-> nsi,
     ret |-> nsi]

\* get_next_seq_id: store->increment, then next_seq_id++.  inc_ok tells
\* whether the Store carried the increment out.
get_next_seq_id(st, nsi, inc_ok) ==
    [store |-> IF inc_ok
               THEN StoreIncrement(st, get_next_seq_id_key(collection_name), 1)
               ELSE st,
     next_seq_id |-> nsi + 1,
     ret |-> nsi]

\* add, as a function of the state and of the outcome of its three Store
\* writes; the result holds the returned Option and the state left behind.
add(json_str, inc_ok, id_ok, doc_ok) ==
    IF ~IsObjText(json_str)
    THEN [code |-> 400, id |-> <<>>, seq |-> -1, next_seq_id |-> next_seq_id, store |-> store,
          indices |-> indices, num_documents |-> num_documents]
    ELSE
    LET parsed == json_parse(json_str)
        g == get_next_seq_id(store, next_seq_id, inc_ok)
        seq_id == g.ret
        seq_id_str == to_string(seq_id)
    IN  IF count(parsed, "id") # 0 /\ ~is_string(parsed["id"])
        THEN [code |-> 400, id |-> <<>>, seq |-> seq_id, next_seq_id |-> g.next_seq_id,
              store |-> g.store, indices |-> indices, num_documents |-> num_documents]
        ELSE
        LET document == IF count(parsed, "id") = 0
                        THEN SetMember(parsed, "id", JStr(seq_id_str)) ELSE parsed
            doc_id == document["id"].v
            index_memory_op == index_in_memory(indices, num_documents, document, seq_id)
            st1 == IF id_ok THEN StoreInsert(g.store, get_doc_id_key(doc_id), seq_id_str)
                   ELSE g.store
            st2 == IF doc_ok THEN StoreInsert(st1, get_seq_id_key(seq_id), json_dump(document))
                   ELSE st1
        IN  IF index_memory_op.code # 200
            THEN [code |-> index_memory_op.code, id |-> <<>>, seq |-> seq_id,
                  next_seq_id |-> g.next_seq_id, store |-> g.store,
                  indices |-> indices, num_documents |-> num_documents]
            ELSE [code |-> 200, id |-> doc_id, seq |-> seq_id,
                  next_seq_id |-> g.next_seq_id, store |-> st2,
                  indices |-> index_memory_op.indices,
                  num_documents |-> index_memory_op.num_documents]

\* get, as a function of the Store.
get(st, id) ==
    IF ~StoreHas(st, get_doc_id_key(id))
    THEN [code |-> 404]
    ELSE LET seq_id == stol(StoreGet(st, get_doc_id_key(id)))
             parsed_document == StoreGet(st, get_seq_id_key(seq_id))
         IN  IF ~IsObjText(parsed_document) THEN [code |-> 500]
             ELSE [code |-> 200, document |-> json_parse(parsed_document)]

\* remove that evicts the stored document but leaves the id mapping.
remove_keeps_mapping(id, remove_from_store) ==
    IF ~StoreHas(store, get_doc_id_key(id))
    THEN [code |-> 404, store |-> store, indices |-> indices,
          num_documents |-> num_documents]
    ELSE LET seq_id == stol(StoreGet(store, get_doc_id_key(id)))
             parsed_document == StoreGet(store, get_seq_id_key(seq_id))
         IN  IF ~IsObjText(parsed_document)
             THEN [code |-> 500, store |-> store, indices |-> indices,
                   num_documents |-> num_documents]
             ELSE [code |-> 200,
                   store |-> IF remove_from_store
                             THEN StoreRemove(store, get_seq_id_key(seq_id))
                             ELSE store,
                   indices |-> [i \in 1..num_indices |->
                                  Index_remove(indices[i], seq_id,
                                               json_parse(parsed_document))],
                   num_documents |-> num_documents - 1]

\* remove, as a function of the state.
remove(id, remove_from_store) ==
    IF ~StoreHas(store, get_doc_id_key(id))
    THEN [code |-> 404, store |-> store, indices |-> indices,
          num_documents |-> num_documents]
    ELSE LET seq_id == stol(StoreGet(store, get_doc_id_key(id)))
             parsed_document == StoreGet(store, get_seq_id_key(seq_id))
         IN  IF ~IsObjText(parsed_document)
             THEN [code |-> 500, store |-> store, indices |-> indices,
                   num_documents |-> num_documents]
             ELSE [code |-> 200,
                   store |-> IF remove_from_store
                             THEN StoreRemove(StoreRemove(store, get_doc_id_key(id)),
                                              get_seq_id_key(seq_id))
                             ELSE store,
                   indices |-> [i \in 1..num_indices |->
                                  Index_remove(indices[i], seq_id,
                                               json_parse(parsed_document))],
                   num_documents |-> num_documents - 1]

\* One call of add whose Store writes have the given outcomes.
AddCall(json_str, inc_ok, id_ok, doc_ok) ==
    LET r == add(json_str, inc_ok, id_ok, doc_ok) IN
    /\ IsObjText(json_str) => Len(assigned) < MaxAdds
    /\ next_seq_id' = r.next_seq_id
    /\ store' = r.store
    /\ indices' = r.indices
    /\ num_documents' = r.num_documents
    /\ last' = [op |-> "add", code |-> r.code, id |-> r.id, seq |-> r.seq,
                store_failed |-> \/ r.seq >= 0 /\ ~inc_ok
                                 \/ r.code = 200 /\ ~(id_ok /\ doc_ok),
                num_before |-> num_documents]
    /\ assigned' = IF r.seq >= 0 THEN Append(assigned, r.seq) ELSE assigned
    /\ expected' = IF r.code = 200
                   THEN MapSet(expected, r.id, [input |-> json_str, seq |-> r.seq])
                   ELSE expected
    /\ removed' = IF r.code = 200 THEN MapDrop(removed, r.id) ELSE removed

\* add with a Store that carries every write out.
Add == \E n \in DOMAIN JsonInputs : AddCall(JsonInputs[n], TRUE, TRUE, TRUE)

Get ==
    \E id \in IdInputs :
        /\ last' = [op |-> "get", id |-> id, result |-> get(store, id)]
        /\ UNCHANGED <<next_seq_id, store, indices, num_documents, assigned, expected, removed>>

Remove ==
    \E id \in IdInputs, remove_from_store \in BOOLEAN :
        LET r == remove(id, remove_from_store) IN
        /\ r.num_documents >= -MaxUnderflow
        /\ store' = r.store
        /\ indices' = r.indices
        /\ num_documents' = r.num_documents
        /\ last' = [op |-> "remove", code |-> r.code, id |-> id,
                    remove_from_store |-> remove_from_store]
        /\ expected' = IF r.code = 200 THEN MapDrop(expected, id) ELSE expected
        /\ removed' = IF r.code = 200 THEN MapSet(removed, id, remove_from_store)
                      ELSE removed
        /\ UNCHANGED <<next_seq_id, assigned>>

Search ==
    \E n \in DOMAIN SearchInputs :
        LET req == SearchInputs[n]
            ok == ~search_fields_error(req.search_fields)
                    /\ ~facet_fields_error(req.facet_fields)
        IN
        \* the page loop can overrun only when per_page is 0
        \E overrun \in (IF req.per_page = 0 THEN {0, 500} ELSE {0}),
           facet_orders \in [DOMAIN req.facet_fields ->
                IF ok
                THEN UNION {FacetOrders(FacetResultMap(indices, req, req.facet_fields[i])) :
                               i \in DOMAIN req.facet_fields}
                ELSE {<<>>}] :
            /\ \A i \in DOMAIN req.facet_fields :
                  ok => facet_orders[i] \in
                          FacetOrders(FacetResultMap(indices, req, req.facet_fields[i]))
            /\ last' = [op |-> "search", req |-> req,
                        result |-> search(req, facet_orders, overrun)]
            /\ UNCHANGED <<next_seq_id, store, indices, num_documents,
                           assigned, expected, removed>>

Next == Add \/ Get \/ Remove \/ Search

Spec == Init /\ [][Next]_vars

\* add with a Store that fails at least one of the writes it is asked for.
AddFault ==
    \E n \in DOMAIN JsonInputs, inc_ok, id_ok, doc_ok \in BOOLEAN :
        /\ ~(inc_ok /\ id_ok /\ doc_ok)
        /\ AddCall(JsonInputs[n], inc_ok, id_ok, doc_ok)

NextFault == Add \/ Get \/ Remove \/ AddFault

\* add, get and remove over a Store whose writes may fail.
SpecFault == Init /\ [][NextFault]_vars

\* -- validate_index_in_memory on its own -------------------------------------
\* The members a document text is put together from: one choice per field.
TitleOpts == << <<>>,
                << <<"title", TitleA>> >>,
                << <<"title", JInt(0, 1)>> >> >>
PointsOpts == << <<>>,
                 << <<"points", JInt(0, 100)>> >>,
                 << <<"points", JInt(1, 0)>> >>,
                 << <<"points", JFlt(1, 0)>> >>,
                 << <<"points", JStr(<<"7">>)>> >> >>
TagsOpts == << <<>>,
               << <<"tags", JArr(<<>>)>> >>,
               << <<"tags", Tags2>> >>,
               << <<"tags", JArr(<<JStr(<<"x">>), JInt(0, 5)>>)>> >>,
               << <<"tags", JArr(<<JInt(0, 5), JStr(<<"x">>)>>)>> >>,
               << <<"tags", JStr(<<"x">>)>> >>,
               << <<"tags", JArr(<<JInt(0, 5)>>)>> >> >>

\* One field descriptor per field type, and the values tried against each.
TypedFields == [i \in 1..8 |->
    [name |-> "f", facet |-> FALSE,
     type |-> <<field_types_STRING, field_types_INT32, field_types_INT64,
                field_types_FLOAT, field_types_STRING_ARRAY, field_types_INT32_ARRAY,
                field_types_INT64_ARRAY, field_types_FLOAT_ARRAY>>[i]]]
FieldValues == << TitleA, JInt(0, 100), JInt(1, 0), JFlt(1, 0),
                  JArr(<<>>), Tags2,
                  JArr(<<JStr(<<"x">>), JInt(0, 5)>>),
                  JArr(<<JInt(0, 5), JInt(0, 6)>>),
                  JArr(<<JInt(0, 5), JInt(1, 0)>>),
                  JArr(<<JInt(1, 0)>>),
                  JArr(<<JInt(0, 5), JFlt(1, 0)>>),
                  JArr(<<JFlt(1, 0), JFlt(2, 0)>>),
                  JArr(<<JFlt(1, 0), JStr(<<"x">>)>>) >>

\* validate_index_in_memory called on a document, under the schema above.
Validate ==
    \E a \in DOMAIN TitleOpts, b \in DOMAIN PointsOpts, c \in DOMAIN TagsOpts :
        LET document == json_parse(ObjText(TitleOpts[a] \o PointsOpts[b] \o TagsOpts[c])) IN
        /\ last' = [op |-> "validate", document |-> document,
                    code |-> validate_index_in_memory(document, next_seq_id)]
        /\ UNCHANGED <<next_seq_id, store, indices, num_documents,
                       assigned, expected, removed>>

\* The search_schema loop body of validate_index_in_memory applied to one
\* field of each type (present, or missing when v is 0).
ValidateField ==
    \E t \in DOMAIN TypedFields, v \in 0..Len(FieldValues) :
        LET document == IF v = 0 THEN EmptyMap ELSE ("f" :> FieldValues[v]) IN
        /\ last' = [op |-> "validate_field", field |-> TypedFields[t],
                    document |-> document,
                    error |-> search_field_error(document, TypedFields[t])]
        /\ UNCHANGED <<next_seq_id, store, indices, num_documents,
                       assigned, expected, removed>>

NextValidate == Validate \/ ValidateField

\* Validation alone, on documents and fields drawn from the sets above.
SpecValidate == Init /\ [][NextValidate]_vars

\* ------------------------------------------------------------------ claims
DocIdKeys == {k \in DOMAIN store : IsDocIdKey(k)}
NextSeqCounter(st) == stol(StoreGet(st, get_next_seq_id_key(collection_name)))
InShards(seq_id) == \E i \in 1..num_indices : seq_id \in DOMAIN indices[i]

\* C1: num_documents equals the number of doc_id_key entries (id -> seq_id
\* mappings) of the collection in the Store, after any sequence of add and
\* remove calls.
C1_NumDocumentsIsDocIdCount == num_documents = Cardinality(DocIdKeys)

\* C2: for every document indexed in a shard, with id `id` and sequence id
\* seq_id, the Store maps doc_id_key(id) to the decimal string of seq_id and
\* seq_id_key(seq_id) to the JSON of the document.
C2_IndexedDocumentsPersisted ==
    \A i \in 1..num_indices : \A seq_id \in DOMAIN indices[i] :
        LET document == indices[i][seq_id].document IN
        /\ StoreHas(store, get_doc_id_key(document["id"].v))
        /\ StoreGet(store, get_doc_id_key(document["id"].v)) = to_string(seq_id)
        /\ StoreHas(store, get_seq_id_key(seq_id))
        /\ IsObjText(StoreGet(store, get_seq_id_key(seq_id)))
        /\ json_parse(StoreGet(store, get_seq_id_key(seq_id))) = document

\* C3: a call of add that returns a 400 error leaves next_seq_id, the Store
\* (with the persisted counter), num_documents and every shard as they were.
C3_RejectedAddChangesNothing ==
    [][(last'.op = "add" /\ last'.code = 400)
         => /\ next_seq_id' = next_seq_id
            /\ store' = store
            /\ num_documents' = num_documents
            /\ indices' = indices]_vars

\* C4: next_seq_id never decreases; a seq_id handed to an add is strictly
\* greater than every seq_id handed out before, removed documents included;
\* and each assignment raises the persisted counter by exactly one.
C4_SeqIdsMonotone ==
    [][/\ next_seq_id' >= next_seq_id
       /\ assigned' # assigned =>
            /\ \A i \in DOMAIN assigned : assigned'[Len(assigned')] > assigned[i]
            /\ NextSeqCounter(store') = NextSeqCounter(store) + 1]_vars

\* C4 witness: two seq_ids were handed out and a document was removed in
\* between.
C4_Witness ==
    /\ Len(assigned) = 2
    /\ last.op = "add" /\ last.code = 200
    /\ DOMAIN removed # {}

\* C5: while no add or remove of the id intervened, get(id) after a
\* successful add that returned id gives the added document unchanged, its
\* `id` member the returned id: the id the caller wrote, or the decimal of
\* the seq_id when the text had none.
C5_GetReturnsAdded ==
    \A id \in DOMAIN expected :
        LET written == json_parse(expected[id].input)
            got == get(store, id)
        IN  /\ got.code = 200
            /\ DOMAIN got.document = DOMAIN written \cup {"id"}
            /\ \A n \in DOMAIN written : got.document[n] = written[n]
            /\ got.document["id"] = JStr(id)
            /\ id = IF "id" \in DOMAIN written THEN written["id"].v
                    ELSE to_string(expected[id].seq)

\* C5 witness: get was called for an id that add synthesized, after a second
\* document was stored.
C5_Witness ==
    /\ last.op = "get" /\ last.id \in DOMAIN expected
    /\ "id" \notin DOMAIN json_parse(expected[last.id].input)
    /\ last.result.code = 200
    /\ Cardinality(DocIdKeys) = 2

\* C6 (as stated): after a successful remove(id, remove_from_store), with
\* either value of remove_from_store, get(id) returns 404 until a later add
\* stores a document under the id.
C6_RemovedIsGone_Stated ==
    \A id \in DOMAIN removed : get(store, id).code = 404

\* C6 (amended): after a successful remove(id, true), get(id) returns 404
\* until a later add stores a document under the id; after a successful
\* remove(id, false) it still returns the document.
C6_RemovedFromStoreIsGone ==
    \A id \in DOMAIN removed :
        get(store, id).code = IF removed[id] THEN 404 ELSE 200

\* C6 witness: get was called for an id removed with remove_from_store.
C6_Witness ==
    /\ last.op = "get" /\ last.id \in DOMAIN removed
    /\ removed[last.id]
    /\ last.result.code = 404

\* C7: when a Store write of add fails, add reports failure, the shards do
\* not hold the document and num_documents is what it was before the call.
C7_FailedStoreWriteRollsBack ==
    (last.op = "add" /\ last.store_failed)
        => /\ last.code # 200
           /\ ~InShards(last.seq)
           /\ num_documents = last.num_before

PaginationRejected(req) == req.page < 1 \/ req.page * req.per_page > MAX_RESULTS
FieldsAccepted(req) ==
    /\ ~search_fields_error(req.search_fields)
    /\ ~facet_fields_error(req.facet_fields)
    /\ ~sort_fields_error(req.sort_fields)

\* C8 (as stated): a search with page < 1 or page * per_page > 500 fails
\* with 422 without searching a shard or reading the Store.
C8_BadPageIs422_Stated ==
    (last.op = "search" /\ PaginationRejected(last.req))
        => /\ last.result.code = 422
           /\ last.result.shard_searches = 0
           /\ last.result.store_reads = 0

\* C8 (amended): a search with page < 1 or page * per_page > 500 fails
\* without searching a shard or reading the Store: with 422 when its search,
\* facet and sort fields pass validation, with 400 when one of them does not.
C8_BadPageIs422 ==
    (last.op = "search" /\ PaginationRejected(last.req))
        => /\ last.result.code = IF FieldsAccepted(last.req) THEN 422 ELSE 400
           /\ last.result.shard_searches = 0
           /\ last.result.store_reads = 0

\* C8 witness: a search with valid fields and page * per_page > 500 was
\* made on a collection that holds documents.
C8_Witness ==
    /\ last.op = "search" /\ FieldsAccepted(last.req)
    /\ last.req.page >= 1 /\ last.req.page * last.req.per_page > MAX_RESULTS
    /\ last.result.code = 422
    /\ InShards(next_seq_id - 1)

\* C9: every successful search response has exactly the top-level keys
\* hits, found and facet_counts.
C9_ResponseHasThreeKeys ==
    (last.op = "search" /\ last.result.code = 200)
        => DOMAIN last.result.body = {"hits", "found", "facet_counts"}

\* C10: a search whose search_fields list is empty fails with 400.
C10_EmptySearchFieldsIs400 ==
    (last.op = "search" /\ last.req.search_fields = <<>>)
        => last.result.code = 400

\* The ranking tuple of an entry of field_order_kvs.
RankTuple(kv) == <<kv.match_score, kv.primary_attr, kv.secondary_attr, kv.first, kv.key>>

\* Tuple a is lexicographically greater than tuple b.
TupleGreater(a, b) ==
    \E i \in DOMAIN a : a[i] > b[i] /\ \A j \in 1..(i - 1) : a[j] = b[j]

\* A hit without the _highlight that search adds.
StoredPart(hit) == [n \in DOMAIN hit \ {"_highlight"} |-> hit[n]]

\* C11: a search accepted by pagination validation (page >= 1 and
\* page * per_page <= 500) over a merged list of length len returns as hits
\* exactly the entries at positions (page-1)*per_page through
\* min(page*per_page, len)-1 of the list sorted descending by (match_score,
\* primary_attr, secondary_attr, field_order_index, seq_id); it reads no
\* entry when that slice is empty and never indexes outside [0, len).
C11_HitsAreThePageSlice ==
    (/\ last.op = "search" /\ FieldsAccepted(last.req)
     /\ last.req.page >= 1 /\ last.req.page * last.req.per_page <= MAX_RESULTS)
        => LET res == last.result
               len == Len(res.kvs)
               lo == (last.req.page - 1) * last.req.per_page
               hi == Min2(last.req.page * last.req.per_page, len) - 1
           IN  /\ \A i, j \in 1..len :
                     i < j => TupleGreater(RankTuple(res.kvs[i]), RankTuple(res.kvs[j]))
               /\ res.code = 200
               /\ Len(res.body.hits) = IF hi >= lo THEN hi - lo + 1 ELSE 0
               /\ \A n \in DOMAIN res.body.hits :
                     StoredPart(res.body.hits[n]) =
                        json_parse(StoreGet(store, get_seq_id_key(res.kvs[lo + n].key)))
               /\ IF hi >= lo THEN res.kv_reads = <<lo, hi>>
                              ELSE res.kv_reads[2] < res.kv_reads[1]
               /\ res.kv_reads[2] >= res.kv_reads[1] =>
                     (res.kv_reads[1] >= 0 /\ res.kv_reads[2] < len)

\* The page slice as C11 states it, for the requests with per_page >= 1,
\* where the page loop stays inside the list.
C11_PositivePerPage ==
    (last.op = "search" /\ last.req.per_page = 0) \/ C11_HitsAreThePageSlice

\* A value is type-correct for a field type; an int32 is at most INT32_MAX.
TypeCorrect(j, type) ==
    LET all_elements(ok(_)) == is_array(j) /\ \A i \in DOMAIN j.v : ok(j.v[i])
        is_int32(x) == is_number_integer(x) /\ x.v.hi <= 0
    IN  CASE type = field_types_STRING -> is_string(j)
          [] type = field_types_INT32 -> is_int32(j)
          [] type = field_types_INT64 -> is_number_integer(j)
          [] type = field_types_FLOAT -> is_number(j)
          [] type = field_types_STRING_ARRAY -> all_elements(is_string)
          [] type = field_types_INT32_ARRAY -> all_elements(is_int32)
          [] type = field_types_INT64_ARRAY -> all_elements(is_number_integer)
          [] type = field_types_FLOAT_ARRAY -> all_elements(is_number)

FieldCorrect(document, f) ==
    f.name \in DOMAIN document /\ TypeCorrect(document[f.name], f.type)

\* C12: validate_index_in_memory returns 400 for every document in which a
\* search_schema field is missing or not type-correct (a non-integer in an
\* integer field, a wrongly typed element at any position of an array, a
\* value above INT32_MAX in an int32 or int32[] field), so that every
\* document it accepts is type-correct in every declared field.
C12_ValidationRejectsIllTyped ==
    /\ last.op = "validate" =>
          ((\E i \in DOMAIN fields : ~FieldCorrect(last.document, fields[i]))
              => last.code = 400)
    /\ last.op = "validate_field" =>
          (~FieldCorrect(last.document, last.field) => last.error)

\* What validate_index_in_memory does check of a field: its presence, its
\* JSON kind, INT32_MAX for a single int32, and element 0 of an array.
HeadCorrect(document, f) ==
    /\ f.name \in DOMAIN document
    /\ LET j == document[f.name] IN
       IF f.type \in {field_types_STRING, field_types_INT32,
                      field_types_INT64, field_types_FLOAT}
       THEN TypeCorrect(j, f.type)
       ELSE /\ is_array(j)
            /\ Len(j.v) > 0 =>
                 CASE f.type = field_types_STRING_ARRAY -> is_string(j.v[1])
                   [] f.type = field_types_FLOAT_ARRAY -> is_number_float(j.v[1])
                   [] OTHER -> is_number_integer(j.v[1])

\* The validation as the code performs it: a document is rejected exactly
\* when a field fails the checks of HeadCorrect.
C12_ValidationChecksHeads ==
    /\ last.op = "validate" =>
          (last.code = 400 <=>
              \E i \in DOMAIN fields : ~HeadCorrect(last.document, fields[i]))
    /\ last.op = "validate_field" =>
          (last.error <=> ~HeadCorrect(last.document, last.field))

\* C13: an add that succeeds changes exactly one of the four shards, the one
\* at index seq_id mod 4 for the seq_id it was assigned, which then holds
\* that seq_id; an add that fails changes none; and after a successful
\* remove of a document no shard holds its seq_id.
C13_OneShardPerAdd ==
    [][/\ (assigned' # assigned /\ last'.code = 200) =>
            /\ Len(indices) = 4
            /\ last'.seq \in DOMAIN indices'[(last'.seq % 4) + 1]
            /\ indices'[(last'.seq % 4) + 1] # indices[(last'.seq % 4) + 1]
            /\ \A j \in 1..4 : j # (last'.seq % 4) + 1 => indices'[j] = indices[j]
       /\ (last'.op = "add" /\ last'.code # 200) => indices' = indices
       /\ (num_documents' < num_documents /\ last'.op = "remove") =>
            /\ \A j \in 1..4 :
                  stol(StoreGet(store, get_doc_id_key(last'.id))) \notin DOMAIN indices'[j]
            /\ last'.id \in DOMAIN expected =>
                  \A j \in 1..4 : expected[last'.id].seq \notin DOMAIN indices'[j]]_vars

\* C13 witness: two documents went into two shards and one of them was
\* removed since.
C13_Witness ==
    /\ last.op = "remove" /\ last.code = 200
    /\ Len(assigned) = 2
    /\ InShards(assigned[1]) # InShards(assigned[2])
    /\ num_documents = 1

====
